---- MODULE Spec2Model ----
(***************************************************************************)
(* Heart Health Classification: the Express gateway (Backend/server.js)    *)
(* and the React prediction page (Frontend/src/Pages/Prediction.jsx).      *)
(*                                                                         *)
(* SpecGateway models one gateway request at a time (the handlers share no *)
(* mutable state, so requests are independent).                            *)
(***************************************************************************)
EXTENDS Integers, Sequences, FiniteSets, TLC

VARIABLES
    \* ---- gateway (server.js) ----
    gwPhase,      \* "idle" | "awaiting" (handler suspended on axios) | "responded"
    gwReq,        \* the request being handled
    gwUpstream,   \* upstream requests issued by axios for gwReq, in order
    gwRes,        \* the response written to res
    gwUpstreamRes, \* what the upstream did with the awaited request
    \* ---- prediction page (Prediction.jsx): React state ----
    inputs,         \* field name -> string typed into the form
    classifier,
    modelType,
    prediction,
    loading,
    error,
    predictionMode,
    \* ---- the running handler (handleSinglePredict / handlePredictAll) ----
    pc,             \* "idle" | "single" | "all": which await the handler is suspended on
    numericInputs,  \* the handler's const numericInputs
    allPredictions, \* the handler's allPredictions object
    pairIdx,        \* number of (classifier, model) pairs resolved so far
    calls,          \* fetch calls issued by the handler the last submit started
    outcomes        \* how each of those calls settled, in order

gwVars == <<gwPhase, gwReq, gwUpstream, gwRes, gwUpstreamRes>>
uiVars == <<inputs, classifier, modelType, prediction, loading, error, predictionMode>>
runVars == <<pc, numericInputs, allPredictions, pairIdx, calls, outcomes>>
clientVars == <<uiVars, runVars>>

(***************************************************************************)
(* JavaScript values                                                       *)
(***************************************************************************)
\* a JS value that is either undefined or an opaque JSON value named by a string
Undefined == [t |-> "undefined", v |-> ""]
Json(s)   == [t |-> "json", v |-> s]
\* a number, and a one-element array holding a number
Num(n)    == [t |-> "num", v |-> n]
Arr(n)    == [t |-> "arr", v |-> n]

\* req.query.model: absent, or the string given after "model="
NoModel      == [given |-> FALSE, value |-> ""]
QModel(s)    == [given |-> TRUE, value |-> s]
\* JS truthiness of req.query.model (undefined and "" are falsy)
ModelTruthy(m) == m.given /\ m.value # ""

\* req.body after express.json(): undefined, or an object given as its set of
\* <<key, value>> pairs
UndefinedBody == [defined |-> FALSE, fields |-> {}]
Body(fs)      == [defined |-> TRUE, fields |-> fs]
EmptyBody     == Body({})
\* !inputData || Object.keys(inputData).length === 0
BodyMissing(b) == ~b.defined \/ Cardinality(b.fields) = 0

(***************************************************************************)
(* AVAILABLE_CLASSIFIERS                                                   *)
(***************************************************************************)
MODEL_LIST == <<"GradientBoosting", "LogisticRegression", "RandomForest">>

\* Object.keys(AVAILABLE_CLASSIFIERS), in insertion order
ClassifierKeys == <<"BP_Class", "Diabetes_Class", "Dyslipidemia_Class">>

SeqToSet(s) == {s[i] : i \in 1..Len(s)}

\* property names every object literal inherits from Object.prototype
ObjectPrototypeKeys == {"constructor", "__proto__", "toString"}

\* AVAILABLE_CLASSIFIERS[classifier]: an own property gives the model array,
\* an inherited property gives a truthy value that is not an array, anything
\* else gives undefined
AVAILABLE_CLASSIFIERS(c) ==
    IF c \in SeqToSet(ClassifierKeys)
    THEN [kind |-> "array", models |-> MODEL_LIST]
    ELSE IF c \in ObjectPrototypeKeys
    THEN [kind |-> "inherited", models |-> <<>>]
    ELSE [kind |-> "undefined", models |-> <<>>]

\* an error message: a fixed text followed by a joined list
Msg(text, list) == [text |-> text, list |-> list]

InvalidClassifierMsg ==
    Msg("Invalid classifier. Must be one of: ", ClassifierKeys)
InvalidModelMsg(c) ==
    Msg("Invalid model type. Must be one of: ", AVAILABLE_CLASSIFIERS(c).models)
NoInputMsg == Msg("No input data provided", <<>>)
NotRunningMsg ==
    Msg("Python service is not running. Please start the Flask server.", <<>>)

\* res.status(s).json({ success: false, error: e })
ErrorRes(s, e) == [status |-> s, success |-> FALSE, error |-> e]

NoRes  == [status |-> 0, success |-> FALSE, error |-> Msg("", <<>>)]
NoReq  == [op |-> "none", classifier |-> "", model |-> NoModel, body |-> UndefinedBody]
NoUpstreamRes == [kind |-> "none"]

\* an axios call: method, upstream path, classifier in the path, "?model=" part,
\* body and timeout
UpstreamReq(method, path, c, m, b, t) ==
    [method |-> method, path |-> path, classifier |-> c, model |-> m,
     body |-> b, timeout |-> t]

(***************************************************************************)
(* Inputs of the gateway                                                   *)
(***************************************************************************)
ClassifierInputs ==
    SeqToSet(ClassifierKeys) \cup {"Heart_Class", "bp_class", "constructor", "__proto__"}

ModelInputs ==
    {NoModel, QModel("")} \cup {QModel(s) : s \in SeqToSet(MODEL_LIST)}
        \cup {QModel("XGBoost"), QModel("randomforest")}

BodyInputs ==
    {UndefinedBody, EmptyBody, Body({<<"age", 45>>}),
     Body({<<"age", 45>>, <<"sex", 1>>})}

\* response.data of a 2xx upstream answer
PredictionValues == {Undefined, Num(0), Num(1), Arr(1)}
UpstreamData ==
    [prediction : PredictionValues,
     probabilities : {Undefined, Json("[[0.2,0.8]]")},
     class_labels : {Undefined, Json("[Negative,Positive]")},
     model : {Undefined, Json("GradientBoosting"), Json("RandomForest")},
     predictions : {Undefined, Json("predictions")},
     models : {Undefined, Json("models")}]

\* error.response of a non-2xx upstream answer: its status, and the error
\* property of its body (undefined when the body has none or is not an object)
UpstreamStatuses == {400, 404, 500, 502}
UpstreamErrorValues ==
    {[given |-> FALSE, msg |-> Msg("", <<>>)],
     [given |-> TRUE, msg |-> Msg("", <<>>)],
     [given |-> TRUE, msg |-> Msg("Model not found", <<>>)],
     [given |-> TRUE, msg |-> Msg("Missing feature: BMI", <<>>)]}

\* error.response.data.error || fallback
ErrorOr(e, fallback) ==
    IF e.given /\ e.msg # Msg("", <<>>) THEN e.msg ELSE Msg(fallback, <<>>)

(***************************************************************************)
(* POST /api/predict/:classifier                                           *)
(***************************************************************************)
Respond(req, res) ==
    /\ gwPhase' = "responded"
    /\ gwReq' = req
    /\ gwUpstream' = <<>>
    /\ gwRes' = res
    /\ gwUpstreamRes' = NoUpstreamRes
    /\ UNCHANGED clientVars

Forward(req, up) ==
    /\ gwPhase' = "awaiting"
    /\ gwReq' = req
    /\ gwUpstream' = <<up>>
    /\ gwRes' = NoRes
    /\ gwUpstreamRes' = NoUpstreamRes
    /\ UNCHANGED clientVars

\* the three validation steps of the handler, in order; pass = FALSE gives the
\* response the handler returns early with
Pass == [pass |-> TRUE, res |-> NoRes]
Reject(res) == [pass |-> FALSE, res |-> res]

PredictValidation_NoModelCheck(c, m, b) ==
    LET entry == AVAILABLE_CLASSIFIERS(c)
    IN  IF entry.kind = "undefined"
        THEN Reject(ErrorRes(400, InvalidClassifierMsg))
        ELSE IF BodyMissing(b)
        THEN Reject(ErrorRes(400, NoInputMsg))
        ELSE Pass

PredictValidation(c, m, b) ==
    LET entry == AVAILABLE_CLASSIFIERS(c)
    IN  IF entry.kind = "undefined"
        THEN Reject(ErrorRes(400, InvalidClassifierMsg))
        ELSE IF ModelTruthy(m) /\ entry.kind # "array"
        \* .includes is not a function: the TypeError is caught by the handler's
        \* catch, it has no response and no code
        THEN Reject(ErrorRes(500, Msg("Internal server error during prediction", <<>>)))
        ELSE IF ModelTruthy(m) /\ m.value \notin SeqToSet(entry.models)
        THEN Reject(ErrorRes(400, InvalidModelMsg(c)))
        ELSE IF BodyMissing(b)
        THEN Reject(ErrorRes(400, NoInputMsg))
        ELSE Pass

PredictRequest(c, m, b) ==
    /\ gwPhase # "awaiting"
    /\ LET req == [op |-> "predict", classifier |-> c, model |-> m, body |-> b]
           v == PredictValidation(c, m, b)
       IN  IF ~v.pass
           THEN Respond(req, v.res)
           ELSE Forward(req, UpstreamReq("POST", "/predict", c,
                                         IF ModelTruthy(m) THEN m ELSE NoModel,
                                         b, 10000))

(***************************************************************************)
(* POST /api/predict-all                                                   *)
(***************************************************************************)
PredictAllRequest(b) ==
    /\ gwPhase # "awaiting"
    /\ LET req == [op |-> "predict-all", classifier |-> "", model |-> NoModel, body |-> b]
       IN  IF BodyMissing(b)
           THEN Respond(req, ErrorRes(400, NoInputMsg))
           ELSE Forward(req, UpstreamReq("POST", "/predict-all", "", NoModel, b, 15000))

(***************************************************************************)
(* POST /api/compare-models/:classifier                                    *)
(***************************************************************************)
CompareModelsRequest(c, b) ==
    /\ gwPhase # "awaiting"
    /\ LET req == [op |-> "compare-models", classifier |-> c, model |-> NoModel, body |-> b]
       IN  IF AVAILABLE_CLASSIFIERS(c).kind = "undefined"
           THEN Respond(req, ErrorRes(400, InvalidClassifierMsg))
           ELSE IF BodyMissing(b)
           THEN Respond(req, ErrorRes(400, NoInputMsg))
           ELSE Forward(req, UpstreamReq("POST", "/compare-models", c, NoModel, b, 15000))

(***************************************************************************)
(* GET /api/model-info/:classifier                                         *)
(***************************************************************************)
ModelInfoRequest(c, m) ==
    /\ gwPhase # "awaiting"
    /\ LET req == [op |-> "model-info", classifier |-> c, model |-> m, body |-> UndefinedBody]
       IN  IF AVAILABLE_CLASSIFIERS(c).kind = "undefined"
           THEN Respond(req, ErrorRes(400, InvalidClassifierMsg))
           ELSE Forward(req, UpstreamReq("GET", "/model-info", c,
                                         IF ModelTruthy(m) THEN m ELSE NoModel,
                                         UndefinedBody, 5000))

(***************************************************************************)
(* The awaited axios call settles: the rest of each handler                *)
(***************************************************************************)
SuccessRes_WrongModel(req, data) ==
    CASE req.op = "predict" ->
           [status |-> 200, success |-> TRUE, classifier |-> req.classifier,
            prediction |-> data.prediction, probabilities |-> data.probabilities,
            class_labels |-> data.class_labels,
            model |-> IF req.model.given THEN Json(req.model.value) ELSE data.model,
            input |-> req.body]
      [] req.op = "predict-all" ->
           [status |-> 200, success |-> TRUE, predictions |-> data.predictions,
            input |-> req.body]
      [] req.op = "compare-models" ->
           [status |-> 200, success |-> TRUE, classifier |-> req.classifier,
            models |-> data.models, input |-> req.body]
      [] req.op = "model-info" ->
           [status |-> 200, success |-> TRUE, data |-> data]

\* res.json({ success: true, ... }) of each handler
SuccessRes(req, data) ==
    CASE req.op = "predict" ->
           [status |-> 200, success |-> TRUE, classifier |-> req.classifier,
            prediction |-> data.prediction, probabilities |-> data.probabilities,
            class_labels |-> data.class_labels, model |-> data.model,
            input |-> req.body]
      [] req.op = "predict-all" ->
           [status |-> 200, success |-> TRUE, predictions |-> data.predictions,
            input |-> req.body]
      [] req.op = "compare-models" ->
           [status |-> 200, success |-> TRUE, classifier |-> req.classifier,
            models |-> data.models, input |-> req.body]
      [] req.op = "model-info" ->
           [status |-> 200, success |-> TRUE, data |-> data]

\* the generic 500 at the end of each catch block
InternalErrorText(op) ==
    CASE op = "predict" -> "Internal server error during prediction"
      [] op = "predict-all" -> "Internal server error during batch prediction"
      [] op = "compare-models" -> "Internal server error during model comparison"
      [] op = "model-info" -> "Failed to retrieve model information"

\* the fallback of error.response.data.error || '...'
FallbackText(op) ==
    CASE op = "predict" -> "Prediction failed"
      [] op = "predict-all" -> "Batch prediction failed"
      [] op = "compare-models" -> "Model comparison failed"
      [] op = "model-info" -> "Failed to retrieve model information"

CatchResponse_Always500(op, status, e) ==
    IF op = "model-info"
    THEN ErrorRes(500, Msg(InternalErrorText(op), <<>>))
    ELSE ErrorRes(500, ErrorOr(e, FallbackText(op)))

\* the catch block of each handler, for an error with error.response set
CatchResponse(op, status, e) ==
    IF op = "model-info"
    THEN ErrorRes(500, Msg(InternalErrorText(op), <<>>))
    ELSE ErrorRes(status, ErrorOr(e, FallbackText(op)))

\* the catch block of each handler, for an error with error.code given and no
\* error.response
CatchCode(op, code) ==
    IF op \in {"predict", "predict-all"} /\ code = "ECONNREFUSED"
    THEN ErrorRes(503, NotRunningMsg)
    ELSE ErrorRes(500, Msg(InternalErrorText(op), <<>>))

Settle(res, up) ==
    /\ gwPhase = "awaiting"
    /\ gwPhase' = "responded"
    /\ gwRes' = res
    /\ gwUpstreamRes' = up
    /\ UNCHANGED <<gwReq, gwUpstream>>
    /\ UNCHANGED clientVars

\* the upstream answers 2xx
UpstreamSuccess(data) ==
    Settle(SuccessRes(gwReq, data), [kind |-> "success", data |-> data])

\* the upstream answers with a status outside 2xx
UpstreamErrorResponse(status, e) ==
    Settle(CatchResponse(gwReq.op, status, e),
           [kind |-> "response", status |-> status, error |-> e])

\* no answer: connection refused, timeout, reset
TransportCodes == {"ECONNREFUSED", "ECONNABORTED", "ECONNRESET"}

UpstreamTransportError(code) ==
    Settle(CatchCode(gwReq.op, code), [kind |-> "transport", code |-> code])

GatewayNext ==
    \/ \E c \in ClassifierInputs, m \in ModelInputs, b \in BodyInputs :
          PredictRequest(c, m, b)
    \/ \E b \in BodyInputs : PredictAllRequest(b)
    \/ \E c \in ClassifierInputs, b \in BodyInputs : CompareModelsRequest(c, b)
    \/ \E c \in ClassifierInputs, m \in ModelInputs : ModelInfoRequest(c, m)
    \/ \E data \in UpstreamData : UpstreamSuccess(data)
    \/ \E s \in UpstreamStatuses, e \in UpstreamErrorValues :
          UpstreamErrorResponse(s, e)
    \/ \E code \in TransportCodes : UpstreamTransportError(code)

(***************************************************************************)
(* Prediction.jsx: constants                                               *)
(***************************************************************************)
\* Object.keys(CLASSIFIERS), in insertion order
CLASSIFIERS == <<"BP_Class", "Diabetes_Class", "Dyslipidemia_Class">>
MODEL_TYPES == <<"GradientBoosting", "LogisticRegression", "RandomForest">>

\* the keys of the inputs state, in insertion order (a prefix of the form's
\* fields: a number input and a select)
FieldNames == <<"age", "sex">>
Fields == SeqToSet(FieldNames)

\* FIELD_CONFIG[key]?.label || key
FieldLabel(key) ==
    CASE key = "age" -> "Age"
      [] key = "sex" -> "Sex"
      [] OTHER -> key

Null == [t |-> "null"]

(***************************************************************************)
(* parseFloat on strings given as sequences of characters                  *)
(***************************************************************************)
Digits == <<"0", "1", "2", "3", "4", "5", "6", "7", "8", "9">>
IsDigit(ch) == ch \in SeqToSet(Digits)
DigitVal(ch) == (CHOOSE i \in 1..10 : Digits[i] = ch) - 1

NaN == [nan |-> TRUE, neg |-> FALSE, mant |-> 0, scale |-> 0]
\* the number (-1)^neg * mant / 10^scale
Number(neg, mant, scale) == [nan |-> FALSE, neg |-> neg, mant |-> mant, scale |-> scale]

RECURSIVE SkipWhite(_)
SkipWhite(s) == IF s # <<>> /\ Head(s) = " " THEN SkipWhite(Tail(s)) ELSE s

\* the longest prefix of s made of digits
RECURSIVE DigitRun(_)
DigitRun(s) ==
    IF s # <<>> /\ IsDigit(Head(s)) THEN <<Head(s)>> \o DigitRun(Tail(s)) ELSE <<>>

RECURSIVE DigitsValue(_)
DigitsValue(d) ==
    IF d = <<>> THEN 0
    ELSE 10 * DigitsValue(SubSeq(d, 1, Len(d) - 1)) + DigitVal(d[Len(d)])

RECURSIVE Normalize(_)
Normalize(n) ==
    IF n.scale > 0 /\ n.mant % 10 = 0
    THEN Normalize(Number(n.neg, n.mant \div 10, n.scale - 1))
    ELSE n

\* parseFloat(value): leading white space is skipped, then the longest prefix
\* that is a decimal literal is converted; NaN when there is none
parseFloat(value) ==
    LET s0 == SkipWhite(value)
        signed == s0 # <<>> /\ Head(s0) \in {"-", "+"}
        neg == s0 # <<>> /\ Head(s0) = "-"
        s1 == IF signed THEN Tail(s0) ELSE s0
        whole == DigitRun(s1)
        s2 == SubSeq(s1, Len(whole) + 1, Len(s1))
        frac == IF s2 # <<>> /\ Head(s2) = "." THEN DigitRun(Tail(s2)) ELSE <<>>
    IN  IF Len(whole) + Len(frac) = 0
        THEN NaN
        ELSE Normalize(Number(neg, DigitsValue(whole \o frac), Len(frac)))

(***************************************************************************)
(* validateInputs / prepareInputData                                       *)
(***************************************************************************)
\* the subsequence of FieldNames whose fields satisfy P
RECURSIVE FilterFields(_, _)
FilterFields(names, bad) ==
    IF names = <<>> THEN <<>>
    ELSE (IF Head(names) \in bad THEN <<Head(names)>> ELSE <<>>)
             \o FilterFields(Tail(names), bad)

\* Object.entries(inputs).filter(([_, value]) => value === "")
emptyFields(inp) == FilterFields(FieldNames, {f \in Fields : inp[f] = <<>>})

\* the fields prepareInputData throws on, in iteration order
nanFields(inp) == FilterFields(FieldNames, {f \in Fields : parseFloat(inp[f]).nan})

MapLabels(names) == [i \in 1..Len(names) |-> FieldLabel(names[i])]

\* validateInputs: [ok, error]; error is the argument of setError
validateInputs(inp) ==
    IF Len(emptyFields(inp)) > 0
    THEN [ok |-> FALSE,
          error |-> Msg("Please fill in all fields: ", MapLabels(emptyFields(inp)))]
    ELSE [ok |-> TRUE, error |-> Null]

prepareInputData_NoNaNCheck(inp) ==
    [thrown |-> FALSE, message |-> Null,
     value |-> [f \in Fields |-> parseFloat(inp[f])]]

\* prepareInputData: [thrown, message, value]; it throws on the first field
\* whose parseFloat is NaN
prepareInputData(inp) ==
    IF Len(nanFields(inp)) > 0
    THEN [thrown |-> TRUE,
          message |-> [text |-> "Invalid numeric value for ",
                       list |-> <<FieldLabel(Head(nanFields(inp)))>>,
                       value |-> inp[Head(nanFields(inp))]],
          value |-> [f \in Fields |-> NaN]]
    ELSE [thrown |-> FALSE, message |-> Null,
          value |-> [f \in Fields |-> parseFloat(inp[f])]]

(***************************************************************************)
(* fetch                                                                   *)
(***************************************************************************)
\* fetch(`${API_BASE_URL}/api/predict/${c}?model=${m}`, { method: "POST", body })
FetchCall(c, m, body) == [classifier |-> c, model |-> m, body |-> body]

\* the i-th pair of the nested loops, i in 1..9: outer over CLASSIFIERS, inner
\* over MODEL_TYPES
NumPairs == Len(CLASSIFIERS) * Len(MODEL_TYPES)
PairClassifier(i) == CLASSIFIERS[((i - 1) \div Len(MODEL_TYPES)) + 1]
PairModel(i) == MODEL_TYPES[((i - 1) % Len(MODEL_TYPES)) + 1]

\* the gateway's success envelope for a call
Envelope(call, pred) ==
    [success |-> TRUE, classifier |-> call.classifier, prediction |-> pred,
     probabilities |-> Json("[[0.2,0.8]]"),
     class_labels |-> Json("[Negative,Positive]"),
     model |-> call.model, input |-> call.body]

\* how a fetch and its response.json() can settle: a 2xx answer with the
\* gateway's envelope, another status with the gateway's error body, or a
\* rejection of fetch or of response.json()
OkOutcome(call, pred) == [kind |-> "ok", data |-> Envelope(call, pred)]
HttpErrorOutcome(e) == [kind |-> "http-error", data |-> [success |-> FALSE, error |-> e]]
ThrowOutcome == [kind |-> "throw", message |-> Msg("Failed to fetch", <<>>)]

GatewayErrors ==
    {Msg("", <<>>),
     Msg("Python service is not running. Please start the Flask server.", <<>>)}

\* data.error || 'Prediction failed'
DataErrorOr(data) ==
    IF data.error # Msg("", <<>>) THEN data.error ELSE Msg("Prediction failed", <<>>)

(***************************************************************************)
(* UI events                                                               *)
(***************************************************************************)
\* handleChange
handleChange(name, value) ==
    /\ inputs' = [inputs EXCEPT ![name] = value]
    /\ UNCHANGED <<classifier, modelType, prediction, loading, error, predictionMode>>
    /\ UNCHANGED <<runVars, gwVars>>

\* the classifier and model selects are rendered in single mode only
setClassifier(c) ==
    /\ predictionMode = "single"
    /\ classifier' = c
    /\ UNCHANGED <<inputs, modelType, prediction, loading, error, predictionMode>>
    /\ UNCHANGED <<runVars, gwVars>>

setModelType(m) ==
    /\ predictionMode = "single"
    /\ modelType' = m
    /\ UNCHANGED <<inputs, classifier, prediction, loading, error, predictionMode>>
    /\ UNCHANGED <<runVars, gwVars>>

\* the two mode buttons
ClickMode(mode) ==
    /\ predictionMode' = mode
    /\ prediction' = Null
    /\ error' = Null
    /\ UNCHANGED <<inputs, classifier, modelType, loading>>
    /\ UNCHANGED <<runVars, gwVars>>

(***************************************************************************)
(* handleSubmit: handleSinglePredict / handlePredictAll up to the first    *)
(* await                                                                   *)
(***************************************************************************)
FirstCall(mode, body) ==
    IF mode = "single"
    THEN FetchCall(classifier, modelType, body)
    ELSE FetchCall(PairClassifier(1), PairModel(1), body)

handleSubmit ==
    /\ ~loading          \* the submit button is disabled while loading
    /\ pc = "idle"
    /\ LET v == validateInputs(inputs)
           p == prepareInputData(inputs)
       IN  IF ~v.ok
           THEN \* setError(...); return
                /\ error' = v.error
                /\ calls' = <<>>
                /\ outcomes' = <<>>
                /\ UNCHANGED <<prediction, loading, pc, numericInputs,
                               allPredictions, pairIdx>>
           ELSE IF p.thrown
           THEN \* the throw is caught by the outer catch; finally runs
                /\ error' = p.message
                /\ prediction' = Null
                /\ loading' = FALSE
                /\ calls' = <<>>
                /\ outcomes' = <<>>
                /\ UNCHANGED <<pc, numericInputs, allPredictions, pairIdx>>
           ELSE /\ loading' = TRUE
                /\ error' = Null
                /\ prediction' = Null
                /\ numericInputs' = p.value
                /\ allPredictions' = <<>>
                /\ pairIdx' = 0
                /\ pc' = predictionMode
                /\ calls' = <<FirstCall(predictionMode, p.value)>>
                /\ outcomes' = <<>>
    /\ UNCHANGED <<inputs, classifier, modelType, predictionMode>>
    /\ UNCHANGED gwVars

(***************************************************************************)
(* handleSinglePredict after the await                                     *)
(***************************************************************************)
SinglePredictSettle(o) ==
    /\ pc = "single"
    /\ pc' = "idle"
    /\ outcomes' = Append(outcomes, o.kind)
    /\ CASE o.kind = "ok" ->
              /\ prediction' = o.data
              /\ UNCHANGED error
         [] o.kind = "http-error" ->
              \* throw new Error(data.error || 'Prediction failed')
              /\ error' = DataErrorOr(o.data)
              /\ UNCHANGED prediction
         [] o.kind = "throw" ->
              /\ error' = o.message
              /\ UNCHANGED prediction
    /\ loading' = FALSE
    /\ UNCHANGED <<inputs, classifier, modelType, predictionMode,
                   numericInputs, allPredictions, pairIdx, calls>>
    /\ UNCHANGED gwVars

(***************************************************************************)
(* handlePredictAll: one turn of the loops, from one await to the next     *)
(***************************************************************************)
\* the value stored at allPredictions[classifierKey][model]
PairEntry(o) ==
    CASE o.kind = "ok" ->
           [prediction |-> o.data.prediction,
            probabilities |-> o.data.probabilities,
            class_labels |-> o.data.class_labels]
      [] o.kind = "http-error" -> [error |-> DataErrorOr(o.data)]
      [] o.kind = "throw" -> [error |-> o.message]

StoreEntry_ResetInner(all, c, m, entry) ==
    LET inner2 == [k \in {m} |-> entry]
    IN  [k \in DOMAIN all \cup {c} |-> IF k = c THEN inner2 ELSE all[k]]

\* allPredictions[c][m] = entry, allPredictions[c] having been set to {} when
\* the outer loop reached c
StoreEntry(all, c, m, entry) ==
    LET inner == IF c \in DOMAIN all THEN all[c] ELSE <<>>
        inner2 == [k \in DOMAIN inner \cup {m} |-> IF k = m THEN entry ELSE inner[k]]
    IN  [k \in DOMAIN all \cup {c} |-> IF k = c THEN inner2 ELSE all[k]]

PredictAllSettle_Progressive(o) ==
    /\ pc = "all"
    /\ LET i == pairIdx + 1
           all2 == StoreEntry(allPredictions, PairClassifier(i), PairModel(i), PairEntry(o))
       IN  /\ allPredictions' = all2
           /\ pairIdx' = i
           /\ outcomes' = Append(outcomes, o.kind)
           /\ prediction' = [success |-> TRUE, predictions |-> all2,
                             input |-> numericInputs]
           /\ IF i < NumPairs
              THEN /\ calls' = Append(calls, FetchCall(PairClassifier(i + 1),
                                                       PairModel(i + 1), numericInputs))
                   /\ UNCHANGED <<loading, pc>>
              ELSE /\ loading' = FALSE
                   /\ pc' = "idle"
                   /\ UNCHANGED calls
    /\ UNCHANGED <<inputs, classifier, modelType, error, predictionMode, numericInputs>>
    /\ UNCHANGED gwVars

PredictAllSettle_RetryOnThrow(o) ==
    /\ pc = "all"
    /\ IF o.kind = "throw"
       THEN /\ calls' = Append(calls, calls[Len(calls)])
            /\ UNCHANGED <<allPredictions, pairIdx, outcomes, prediction, loading, pc>>
       ELSE LET i == pairIdx + 1
                all2 == StoreEntry(allPredictions, PairClassifier(i), PairModel(i), PairEntry(o))
            IN  /\ allPredictions' = all2
                /\ pairIdx' = i
                /\ outcomes' = Append(outcomes, o.kind)
                /\ IF i < NumPairs
                   THEN /\ calls' = Append(calls, FetchCall(PairClassifier(i + 1),
                                                            PairModel(i + 1), numericInputs))
                        /\ UNCHANGED <<prediction, loading, pc>>
                   ELSE /\ prediction' = [success |-> TRUE, predictions |-> all2,
                                          input |-> numericInputs]
                        /\ loading' = FALSE
                        /\ pc' = "idle"
                        /\ UNCHANGED calls
    /\ UNCHANGED <<inputs, classifier, modelType, error, predictionMode, numericInputs>>
    /\ UNCHANGED gwVars

PredictAllSettle(o) ==
    /\ pc = "all"
    /\ LET i == pairIdx + 1
           all2 == StoreEntry(allPredictions, PairClassifier(i), PairModel(i), PairEntry(o))
       IN  /\ allPredictions' = all2
           /\ pairIdx' = i
           /\ outcomes' = Append(outcomes, o.kind)
           /\ IF i < NumPairs
              THEN /\ calls' = Append(calls, FetchCall(PairClassifier(i + 1),
                                                       PairModel(i + 1), numericInputs))
                   /\ UNCHANGED <<prediction, loading, pc>>
              ELSE /\ prediction' = [success |-> TRUE, predictions |-> all2,
                                     input |-> numericInputs]
                   /\ loading' = FALSE
                   /\ pc' = "idle"
                   /\ UNCHANGED calls
    /\ UNCHANGED <<inputs, classifier, modelType, error, predictionMode, numericInputs>>
    /\ UNCHANGED gwVars

\* the outcomes of the call the handler is waiting for. In a complete
\* analysis the upstream is a fixed function of the pair: what varies is which
\* of the three ways each call settles.
CurrentCall == calls[Len(calls)]
LoopOutcomes ==
    {OkOutcome(CurrentCall, IF CurrentCall.model = "RandomForest" THEN Num(0) ELSE Num(1)),
     HttpErrorOutcome(IF CurrentCall.model = "GradientBoosting"
                      THEN Msg("", <<>>)
                      ELSE Msg("Python service is not running. Please start the Flask server.", <<>>)),
     ThrowOutcome}
SingleOutcomes ==
    {OkOutcome(CurrentCall, pred) : pred \in {Num(0), Num(1), Arr(1)}}
        \cup {HttpErrorOutcome(e) : e \in GatewayErrors} \cup {ThrowOutcome}

(***************************************************************************)
(* Rendering                                                               *)
(***************************************************************************)
\* obj.key, undefined when the object has no such property
Prop(obj, key) == IF key \in DOMAIN obj THEN obj[key] ELSE Undefined

\* !pred
JsFalsy(pred) == pred = Undefined \/ pred = Num(0)

\* getResultText
getResultText(pred) ==
    IF JsFalsy(pred)
    THEN "N/A"
    ELSE LET value == IF pred.t = "arr" THEN Num(pred.v) ELSE pred
         IN  IF value = Num(1) THEN "Positive" ELSE "Negative"

\* prediction && predictionMode === 'single' && prediction.success
SingleViewRendered ==
    prediction # Null /\ predictionMode = "single" /\ prediction.success

\* prediction && predictionMode === 'all' && prediction.success
AllViewRendered ==
    prediction # Null /\ predictionMode = "all" /\ prediction.success

\* the text of the single result card: getResultText(prediction.prediction)
SingleResultText == getResultText(Prop(prediction, "prediction"))

\* the text of the card of one model in the complete-analysis view, for an
\* entry without error: getResultText(result.prediction)
EntryResultText(entry) == getResultText(Prop(entry, "prediction"))

(***************************************************************************)
(* Specifications                                                          *)
(***************************************************************************)
vars == <<gwVars, clientVars>>

\* strings typed into the form
AgeStrings ==
    {<<>>, <<"4", "5">>, <<"a", "b", "c">>, <<"1", "2", "a">>, <<" ">>}
SexStrings == {<<>>, <<"1">>, <<"x">>}
FieldStrings(f) == IF f = "age" THEN AgeStrings ELSE SexStrings

\* the gateway has no request in hand; the page holds its useState(...)
\* initial values
Init ==
    /\ gwPhase = "idle"
    /\ gwReq = NoReq
    /\ gwUpstream = <<>>
    /\ gwRes = NoRes
    /\ gwUpstreamRes = NoUpstreamRes
    /\ inputs = [f \in Fields |-> <<>>]
    /\ classifier = "BP_Class"
    /\ modelType = "GradientBoosting"
    /\ prediction = Null
    /\ loading = FALSE
    /\ error = Null
    /\ predictionMode = "single"
    /\ pc = "idle"
    /\ numericInputs = [f \in Fields |-> NaN]
    /\ allPredictions = <<>>
    /\ pairIdx = 0
    /\ calls = <<>>
    /\ outcomes = <<>>

\* the gateway alone
SpecGateway == Init /\ [][GatewayNext]_vars

\* a complete-analysis run for a form that is already filled in
AnalysisInputs ==
    {[age |-> <<"4", "5">>, sex |-> <<"1">>],
     [age |-> <<" ", "-", "4", ".", "5", "0", "k", "g">>, sex |-> <<"0">>],
     [age |-> <<"4", "5">>, sex |-> <<>>],
     [age |-> <<"a", "b", "c">>, sex |-> <<"1">>]}

AnalysisInit ==
    /\ gwPhase = "idle"
    /\ gwReq = NoReq
    /\ gwUpstream = <<>>
    /\ gwRes = NoRes
    /\ gwUpstreamRes = NoUpstreamRes
    /\ inputs \in AnalysisInputs
    /\ classifier = "BP_Class"
    /\ modelType = "GradientBoosting"
    /\ prediction = Null
    /\ loading = FALSE
    /\ error = Null
    /\ predictionMode = "all"
    /\ pc = "idle"
    /\ numericInputs = [f \in Fields |-> NaN]
    /\ allPredictions = <<>>
    /\ pairIdx = 0
    /\ calls = <<>>
    /\ outcomes = <<>>

AnalysisNext ==
    \/ handleSubmit
    \/ pc = "single" /\ \E o \in SingleOutcomes : SinglePredictSettle(o)
    \/ pc = "all" /\ \E o \in LoopOutcomes : PredictAllSettle(o)
    \/ \E mode \in {"single", "all"} : ClickMode(mode)

SpecAnalysis == AnalysisInit /\ [][AnalysisNext]_vars

\* the page with every UI event; in a complete analysis only the calls of the
\* first MaxFailingPairs pairs may fail
MaxFailingPairs == 2

ClientNext ==
    \/ \E f \in Fields : \E value \in FieldStrings(f) : handleChange(f, value)
    \/ \E c \in SeqToSet(CLASSIFIERS) : setClassifier(c)
    \/ \E m \in SeqToSet(MODEL_TYPES) : setModelType(m)
    \/ \E mode \in {"single", "all"} : ClickMode(mode)
    \/ handleSubmit
    \/ pc = "single" /\ \E o \in SingleOutcomes : SinglePredictSettle(o)
    \/ pc = "all" /\ \E o \in LoopOutcomes :
          /\ o.kind = "ok" \/ pairIdx < MaxFailingPairs
          /\ PredictAllSettle(o)

SpecClient == Init /\ [][ClientNext]_vars

(***************************************************************************)
(* Gateway properties                                                      *)
(***************************************************************************)
Whitelist == SeqToSet(ClassifierKeys)
RelayOps == {"predict", "predict-all", "compare-models"}

\* C1: a classifier path segment outside the whitelist gets, from predict,
\* compare-models and model-info, a 400 whose message lists the valid
\* classifier ids, and no upstream request is issued.
C1_UnknownClassifierRejected ==
    (/\ gwReq.op \in {"predict", "compare-models", "model-info"}
     /\ gwReq.classifier \notin Whitelist)
    => /\ gwPhase = "responded"
       /\ gwRes.status = 400
       /\ gwRes.error.list = ClassifierKeys
       /\ gwUpstream = <<>>

\* C2 as stated: every supplied model that is not in the classifier's list gets
\* a 400 naming the valid models from predict, and no upstream request.
C2_SuppliedInvalidModelRejected ==
    (/\ gwReq.op = "predict"
     /\ gwReq.classifier \in Whitelist
     /\ gwReq.model.given
     /\ gwReq.model.value \notin SeqToSet(MODEL_LIST))
    => /\ gwPhase = "responded"
       /\ gwRes.status = 400
       /\ gwRes.error.list = MODEL_LIST
       /\ gwUpstream = <<>>

\* C2 amended: every supplied non-empty model that is not in the classifier's
\* list gets a 400 naming the valid models from predict, and no upstream
\* request; an empty model parameter is treated as no model.
C2_NonEmptyInvalidModelRejected ==
    (/\ gwReq.op = "predict"
     /\ gwReq.classifier \in Whitelist
     /\ gwReq.model.given
     /\ gwReq.model.value # ""
     /\ gwReq.model.value \notin SeqToSet(MODEL_LIST))
    => /\ gwPhase = "responded"
       /\ gwRes.status = 400
       /\ gwRes.error.list = MODEL_LIST
       /\ gwUpstream = <<>>

C2_Witness ==
    /\ gwReq.op = "predict"
    /\ gwReq.classifier = "Diabetes_Class"
    /\ gwReq.model = QModel("XGBoost")
    /\ ~BodyMissing(gwReq.body)
    /\ gwPhase = "responded"
    /\ gwRes.status = 400

\* C3: an empty body {} gets a 400 from predict, predict-all and
\* compare-models, and no upstream request.
C3_EmptyBodyRejected ==
    (/\ gwReq.op \in RelayOps
     /\ gwReq.body = EmptyBody)
    => /\ gwPhase = "responded"
       /\ gwRes.status = 400
       /\ gwUpstream = <<>>

\* C4: when the upstream refuses the connection, predict, predict-all and
\* compare-models answer 503.
C4_ConnRefusedIs503 ==
    (/\ gwReq.op \in RelayOps
     /\ gwUpstreamRes.kind = "transport"
     /\ gwUpstreamRes.code = "ECONNREFUSED")
    => gwRes.status = 503

\* C5: when the upstream answers outside 2xx, predict, predict-all and
\* compare-models answer with the same status and the upstream's error
\* message, or a generic fallback message when it gave none.
GenericFallbacks ==
    {Msg("Prediction failed", <<>>), Msg("Batch prediction failed", <<>>),
     Msg("Model comparison failed", <<>>)}

C5_UpstreamStatusPropagated ==
    (/\ gwReq.op \in RelayOps
     /\ gwUpstreamRes.kind = "response")
    => /\ gwPhase = "responded"
       /\ gwRes.status = gwUpstreamRes.status
       /\ ~gwRes.success
       /\ IF gwUpstreamRes.error.given /\ gwUpstreamRes.error.msg.text # ""
          THEN gwRes.error = gwUpstreamRes.error.msg
          ELSE gwRes.error \in GenericFallbacks

C5_Witness ==
    /\ gwReq.op = "compare-models"
    /\ gwUpstreamRes.kind = "response"
    /\ gwUpstreamRes.status = 404
    /\ gwUpstreamRes.error.given
    /\ gwRes.error = Msg("Model not found", <<>>)

\* C6: model-info answers a classifier outside the whitelist, or a supplied
\* model that is not valid for the classifier, with a client error and issues
\* no upstream GET.
C6_ModelInfoValidatesLikePredict ==
    (/\ gwReq.op = "model-info"
     /\ \/ gwReq.classifier \notin Whitelist
        \/ /\ gwReq.model.given
           /\ gwReq.model.value # ""
           /\ gwReq.model.value \notin SeqToSet(MODEL_LIST))
    => /\ gwPhase = "responded"
       /\ gwRes.status \in 400..499
       /\ gwUpstream = <<>>

\* C10: on upstream success of a single predict, the envelope carries the
\* requested classifier, the request body as input, and the upstream's
\* prediction, probabilities, class_labels and model unchanged; the body sent
\* upstream is the request body.
C10_SuccessEnvelope ==
    (/\ gwReq.op = "predict"
     /\ gwUpstreamRes.kind = "success")
    => /\ gwPhase = "responded"
       /\ gwRes.status = 200
       /\ gwRes.success
       /\ gwRes.classifier = gwReq.classifier
       /\ gwRes.input = gwReq.body
       /\ gwRes.prediction = gwUpstreamRes.data.prediction
       /\ gwRes.probabilities = gwUpstreamRes.data.probabilities
       /\ gwRes.class_labels = gwUpstreamRes.data.class_labels
       /\ gwRes.model = gwUpstreamRes.data.model
       /\ Len(gwUpstream) = 1
       /\ gwUpstream[1].body = gwReq.body

C10_Witness ==
    /\ gwReq.op = "predict"
    /\ gwReq.classifier = "BP_Class"
    /\ gwReq.model = QModel("LogisticRegression")
    /\ gwUpstreamRes.kind = "success"
    /\ gwUpstreamRes.data.prediction = Num(1)
    /\ gwUpstreamRes.data.model = Json("GradientBoosting")
    /\ gwRes.success

(***************************************************************************)
(* Prediction page properties                                              *)
(***************************************************************************)
IsAggregate(p) == p # Null /\ "predictions" \in DOMAIN p
IsErrorEntry(e) == "error" \in DOMAIN e
IsResultEntry(e) == {"prediction", "probabilities", "class_labels"} \subseteq DOMAIN e

\* the number of entries of an allPredictions object
EntryCount(all) ==
    Cardinality({<<c, m>> \in SeqToSet(CLASSIFIERS) \X SeqToSet(MODEL_TYPES) :
                    c \in DOMAIN all /\ m \in DOMAIN all[c]})

\* the entry of the i-th pair is an error entry exactly when the i-th call failed
EntryMatches(all, i) ==
    /\ PairClassifier(i) \in DOMAIN all
    /\ PairModel(i) \in DOMAIN all[PairClassifier(i)]
    /\ LET e == all[PairClassifier(i)][PairModel(i)]
       IN  IF outcomes[i] = "ok"
           THEN IsResultEntry(e) /\ ~IsErrorEntry(e)
           ELSE IsErrorEntry(e) /\ ~IsResultEntry(e)

\* C7: for every assignment of outcomes (success, gateway error response,
\* thrown fetch error) to the 9 pairs, the final AggregateResult has exactly one
\* entry per pair, an error entry exactly when that pair's call failed and a
\* result entry otherwise; while the run goes on, the entries of the pairs
\* already resolved stay what their own outcomes made them.
C7_OneEntryPerPair ==
    /\ (pc = "all" /\ Len(outcomes) = pairIdx)
          => \A i \in 1..pairIdx : EntryMatches(allPredictions, i)
    /\ (IsAggregate(prediction) /\ Len(outcomes) = NumPairs)
          => /\ DOMAIN prediction.predictions = SeqToSet(CLASSIFIERS)
             /\ \A c \in SeqToSet(CLASSIFIERS) :
                   DOMAIN prediction.predictions[c] = SeqToSet(MODEL_TYPES)
             /\ EntryCount(prediction.predictions) = NumPairs
             /\ \A i \in 1..NumPairs : EntryMatches(prediction.predictions, i)

C7_Witness ==
    /\ IsAggregate(prediction)
    /\ Len(outcomes) = NumPairs
    /\ outcomes[1] = "throw"
    /\ outcomes[2] = "ok"
    /\ outcomes[5] = "http-error"
    /\ outcomes[9] = "ok"
    /\ IsErrorEntry(prediction.predictions["BP_Class"]["GradientBoosting"])
    /\ IsResultEntry(prediction.predictions["BP_Class"]["LogisticRegression"])

\* C8: while a complete-analysis run is in flight the prediction is empty, and
\* an aggregate that is displayed has all 9 entries.
C8_NoPartialAggregate ==
    /\ pc = "all" => prediction = Null
    /\ IsAggregate(prediction) => EntryCount(prediction.predictions) = NumPairs

C8_Witness ==
    /\ pc = "all"
    /\ pairIdx = NumPairs - 1
    /\ EntryCount(allPredictions) = NumPairs - 1
    /\ "throw" \in SeqToSet(outcomes)
    /\ prediction = Null

\* the fields that are empty or that parseFloat turns into NaN
Offending(inp) == {f \in Fields : inp[f] = <<>> \/ parseFloat(inp[f]).nan}

\* C9: in both modes, a submit with a field that is empty or not convertible to
\* a number issues no network call and sets an error that names offending
\* fields only (at least one); a submit issues a call only when every field is
\* present and numeric.
C9_InvalidInputsNoCall ==
    [][handleSubmit =>
          IF Offending(inputs) # {}
          THEN /\ calls' = <<>>
               /\ pc' = "idle"
               /\ error' # Null
               /\ error'.list # <<>>
               /\ SeqToSet(error'.list) \subseteq {FieldLabel(f) : f \in Offending(inputs)}
          ELSE /\ Len(calls') = 1
               /\ \A f \in Fields : ~calls'[1].body[f].nan]_vars

C9_Witness ==
    /\ predictionMode = "all"
    /\ inputs["age"] = <<"a", "b", "c">>
    /\ inputs["sex"] = <<"1">>
    /\ error # Null
    /\ error.list = <<"Age">>
    /\ calls = <<>>
    /\ pc = "idle"

\* the three rules of single predict
UnknownClassifier(req) == req.classifier \notin Whitelist
InvalidModel(req) ==
    /\ req.model.given
    /\ req.model.value # ""
    /\ req.model.value \notin SeqToSet(MODEL_LIST)

\* C11: single predict validates in the order classifier, model, body: a
\* request that breaks several rules gets the 400 of the first rule it breaks.
C11_FirstViolatedRuleReported ==
    gwReq.op = "predict"
    => /\ UnknownClassifier(gwReq)
             => gwRes = ErrorRes(400, InvalidClassifierMsg)
       /\ (~UnknownClassifier(gwReq) /\ InvalidModel(gwReq))
             => gwRes = ErrorRes(400, Msg("Invalid model type. Must be one of: ", MODEL_LIST))
       /\ (~UnknownClassifier(gwReq) /\ ~InvalidModel(gwReq) /\ BodyMissing(gwReq.body))
             => gwRes = ErrorRes(400, NoInputMsg)

\* the calls of a complete-analysis run are recorded: the run is in flight, or
\* it has finished and no later submit has replaced its record
AnalysisRecorded == pc = "all" \/ Len(outcomes) = NumPairs

\* C12: a complete-analysis run issues one call per (classifier, model) pair,
\* in nested order (outer over classifiers, inner over models), all with the
\* same PatientRecord; a call is issued only after the previous one settled,
\* none is repeated, and the finished run has issued exactly 9.
C12_NineSequentialCalls ==
    AnalysisRecorded
    => /\ Len(calls) <= NumPairs
       /\ Len(calls) = (IF pc = "all" THEN Len(outcomes) + 1 ELSE NumPairs)
       /\ \A k \in 1..Len(calls) :
             /\ calls[k].classifier = CLASSIFIERS[((k - 1) \div 3) + 1]
             /\ calls[k].model = MODEL_TYPES[((k - 1) % 3) + 1]
             /\ calls[k].body = calls[1].body
             /\ \A f \in Fields : calls[k].body[f] = parseFloat(inputs[f])
       /\ \A j, k \in 1..Len(calls) :
             j # k => <<calls[j].classifier, calls[j].model>>
                         # <<calls[k].classifier, calls[k].model>>

C12_Witness ==
    /\ pc = "idle"
    /\ Len(calls) = NumPairs
    /\ Len(outcomes) = NumPairs
    /\ outcomes[3] = "throw"
    /\ outcomes[4] = "http-error"
    /\ calls[4] = FetchCall("Diabetes_Class", "GradientBoosting", numericInputs)
    /\ calls[9] = FetchCall("Dyslipidemia_Class", "RandomForest", numericInputs)
    /\ IsAggregate(prediction)

\* a single-prediction envelope of the gateway
IsEnvelope(p) == p # Null /\ {"classifier", "prediction", "model"} \subseteq DOMAIN p

\* C13: whenever a prediction is held, it is a single-prediction envelope if
\* predictionMode is 'single' and an AggregateResult if predictionMode is 'all'.
C13_ResultMatchesMode ==
    prediction # Null
    => /\ predictionMode = "single" => IsEnvelope(prediction)
       /\ predictionMode = "all" => IsAggregate(prediction)

\* C14: error and prediction are never both non-null.
C14_ErrorExcludesPrediction == ~(error # Null /\ prediction # Null)

\* the text shown for an integer class code: 'Positive' for 1, 'Negative' for
\* 0, and 'N/A' only when there is no label
TextMatchesLabel(label, text) ==
    /\ label = Num(1) => text = "Positive"
    /\ label = Num(0) => text = "Negative"
    /\ text = "N/A" => label = Undefined

\* C15: a displayed successful result whose label is an integer class code
\* shows 'Positive' for 1 and 'Negative' for 0; 'N/A' is shown only when the
\* result has no label. This covers the single card and every result card of
\* the complete-analysis view.
C15_TextMatchesLabel ==
    /\ (SingleViewRendered /\ IsEnvelope(prediction))
          => TextMatchesLabel(prediction.prediction, SingleResultText)
    /\ (AllViewRendered /\ IsAggregate(prediction))
          => \A c \in DOMAIN prediction.predictions :
                \A m \in DOMAIN prediction.predictions[c] :
                   LET entry == prediction.predictions[c][m]
                   IN  IsResultEntry(entry)
                          => TextMatchesLabel(entry.prediction, EntryResultText(entry))

====
